---- MODULE Spec2Model ----
(***************************************************************************)
(* Ring-parameter negotiation of the EF100 ethtool callbacks               *)
(* (drivers/net/ethernet/sfc/ef100_ethtool.c):                             *)
(*   ef100_ethtool_get_ringparam  and  ef100_ethtool_set_ringparam.        *)
(* The device (struct efx_nic) is a record; every call of a callback is    *)
(* one step, and the outcome of the last call is kept in `ret`.            *)
(***************************************************************************)
EXTENDS Integers, Sequences, FiniteSets

VARIABLES efx, multi_client, ret

vars == <<efx, multi_client, ret>>

(* ---------------------------------------------------------------------- *)
(* Program constants                                                       *)
(* ---------------------------------------------------------------------- *)
EFX_EF100_MAX_DMAQ_SIZE == 16384

EINVAL == 22

EOPNOTSUPP == 95

ERANGE == 34

EBUSY == 16

(* ---------------------------------------------------------------------- *)
(* Bounds of the model                                                     *)
(* ---------------------------------------------------------------------- *)
MaxOpenCount == 2

(* (guaranteed_bitmap, supported_bitmap) pairs a device may report:        *)
(*   firmware without queue-size capabilities; {256,1024,4096} with and    *)
(*   without permission to change; {256,32768}; {1024,16384};              *)
(*   {32768,65536}.  The supported bitmap 38656 is                         *)
(*   {256,512,1024,4096,32768}.                                            *)
Capabilities ==
  {<<0, 0>>, <<5376, 0>>, <<5376, 38656>>, <<33024, 38656>>,
   <<17408, 38656>>, <<98304, 38656>>}

(* (rxq_entries, txq_entries) the driver may hold after probe *)
InitEntries == {<<256, 256>>, <<1024, 256>>}

(* (disabled, running): up, down, and running but disabled by a reset *)
LinkStates == {<<FALSE, TRUE>>, <<FALSE, FALSE>>, <<TRUE, TRUE>>}

(* ring sizes a request may carry *)
RequestSizes == {0, 256, 512, 768, 1024, 32768}

(* ring sizes a request that also asks for a mini or a jumbo ring carries *)
LegacySizes == {256, 768, 1024}

(* (rx_mini_pending, rx_jumbo_pending) of a request that asks for one *)
MiniJumbo == {<<64, 0>>, <<0, 64>>}

(* status codes dev_open() may return: success, -ENOMEM, -EBUSY *)
OpenCodes == {0, 0 - 12, 0 - EBUSY}

(* ---------------------------------------------------------------------- *)
(* Kernel helpers used by the callbacks                                    *)
(* ---------------------------------------------------------------------- *)
RECURSIVE BitAnd(_, _)
BitAnd(a, b) ==
  IF a = 0 \/ b = 0 THEN 0
  ELSE (a % 2) * (b % 2) + 2 * BitAnd(a \div 2, b \div 2)

RECURSIVE BitOr(_, _)
BitOr(a, b) ==
  IF a = 0 THEN b
  ELSE IF b = 0 THEN a
  ELSE (IF a % 2 = 1 \/ b % 2 = 1 THEN 1 ELSE 0) + 2 * BitOr(a \div 2, b \div 2)

RECURSIVE fls_long(_)
fls_long(n) == IF n = 0 THEN 0 ELSE 1 + fls_long(n \div 2)

is_power_of_2_accepts_any_nonzero(n) == n # 0

is_power_of_2_accepts_zero(n) == n = 0 \/ BitAnd(n, n - 1) = 0

is_power_of_2(n) == n # 0 /\ BitAnd(n, n - 1) = 0

rounddown_pow_of_two(n) == 2 ^ (fls_long(n) - 1)

BoolToInt(b) == IF b THEN 1 ELSE 0

(* ---------------------------------------------------------------------- *)
(* ef100_ethtool_get_ringparam                                             *)
(* ---------------------------------------------------------------------- *)
driver_bitmap_unmasked(e) == e.guaranteed_bitmap

driver_bitmap(e) ==
  BitAnd(BitOr(EFX_EF100_MAX_DMAQ_SIZE, EFX_EF100_MAX_DMAQ_SIZE - 1),
         e.guaranteed_bitmap)

max_size(e) ==
  IF driver_bitmap(e) # 0 THEN rounddown_pow_of_two(driver_bitmap(e)) ELSE 0

get_ringparam(e) ==
  [rx_max_pending |-> max_size(e),
   tx_max_pending |-> max_size(e),
   rx_pending     |-> e.rxq_entries,
   tx_pending     |-> e.txq_entries]

(* ---------------------------------------------------------------------- *)
(* ef100_ethtool_set_ringparam                                             *)
(* ---------------------------------------------------------------------- *)
is_up(e) == ~e.disabled /\ e.running

NothingToDo_tx_vs_rxq(e, ring) ==
  ring.rx_pending = e.rxq_entries /\ ring.tx_pending = e.rxq_entries

NothingToDo(e, ring) ==
  ring.rx_pending = e.rxq_entries /\ ring.tx_pending = e.txq_entries

NotSupported_wrong_field(e) == e.guaranteed_bitmap = 0

NotSupported(e) == e.supported_bitmap = 0

RingSizeUnsupported_wrong_field(e, n) ==
  n # 0 /\ BitAnd(e.supported_bitmap, n) = 0

RingSizeUnsupported(e, n) ==
  n # 0 /\ BitAnd(e.guaranteed_bitmap, n) = 0

DeviceInUse_ignores_is_up(e, mc, up) == mc /\ e.open_count > 1

DeviceInUse(e, mc, up) == mc /\ e.open_count > BoolToInt(up)

(* the return statement a request leaves the checks by *)
Validate(e, mc, ring, up) ==
  IF ring.rx_mini_pending # 0 \/ ring.rx_jumbo_pending # 0 THEN "mini_jumbo"
  ELSE IF ~is_power_of_2(ring.rx_pending) \/ ~is_power_of_2(ring.tx_pending)
    THEN "not_pow2"
  ELSE IF NothingToDo(e, ring) THEN "nothing"
  ELSE IF NotSupported(e) THEN "not_supported"
  ELSE IF RingSizeUnsupported(e, ring.rx_pending) THEN "rx_range"
  ELSE IF RingSizeUnsupported(e, ring.tx_pending) THEN "tx_range"
  ELSE IF DeviceInUse(e, mc, up) THEN "busy"
  ELSE "apply"

ErrorCode(exit) ==
  CASE exit = "mini_jumbo"    -> 0 - EINVAL
    [] exit = "not_pow2"      -> 0 - EINVAL
    [] exit = "nothing"       -> 0
    [] exit = "not_supported" -> 0 - EOPNOTSUPP
    [] exit = "rx_range"      -> 0 - ERANGE
    [] exit = "tx_range"      -> 0 - ERANGE
    [] exit = "busy"          -> 0 - EBUSY

ApplySettings(e, ring) ==
  [e EXCEPT !.rxq_entries = ring.rx_pending, !.txq_entries = ring.tx_pending]

(* dev_close(): the interface stops running; the log entry keeps the ring  *)
(* sizes the datapath is torn down with                                    *)
dev_close(s) ==
  [s EXCEPT !.efx.running = FALSE,
            !.log = Append(s.log, [call |-> "dev_close", rc |-> 0,
                                   rxq_entries |-> s.efx.rxq_entries,
                                   txq_entries |-> s.efx.txq_entries])]

(* dev_open(): the interface runs again iff the open succeeds; the log     *)
(* entry keeps the ring sizes the datapath is rebuilt with                 *)
dev_open(s, open_rc) ==
  [s EXCEPT !.efx.running = (open_rc = 0),
            !.rc = open_rc,
            !.log = Append(s.log, [call |-> "dev_open", rc |-> open_rc,
                                   rxq_entries |-> s.efx.rxq_entries,
                                   txq_entries |-> s.efx.txq_entries])]

Restart_drops_status(s, up, open_rc) ==
  IF up THEN [dev_open(dev_close(s), open_rc) EXCEPT !.rc = 0] ELSE s

Restart(s, up, open_rc) ==
  IF up THEN dev_open(dev_close(s), open_rc) ELSE s

set_ringparam_applies_before_busy_check(e, mc, ring, open_rc) ==
  LET up   == is_up(e)
      exit == Validate(e, mc, ring, up)
  IN  IF exit = "apply"
        THEN Restart([efx |-> ApplySettings(e, ring), rc |-> 0, log |-> <<>>,
                      exit |-> exit], up, open_rc)
        ELSE [efx  |-> IF exit = "busy" THEN ApplySettings(e, ring) ELSE e,
              rc   |-> ErrorCode(exit),
              log  |-> <<>>,
              exit |-> exit]

set_ringparam(e, mc, ring, open_rc) ==
  LET up   == is_up(e)
      exit == Validate(e, mc, ring, up)
  IN  IF exit = "apply"
        THEN Restart([efx |-> ApplySettings(e, ring), rc |-> 0, log |-> <<>>,
                      exit |-> exit], up, open_rc)
        ELSE [efx  |-> e,
              rc   |-> ErrorCode(exit),
              log  |-> <<>>,
              exit |-> exit]

(* ---------------------------------------------------------------------- *)
(* State machine                                                           *)
(* ---------------------------------------------------------------------- *)
NoRing == [rx_pending |-> 0, tx_pending |-> 0,
           rx_mini_pending |-> 0, rx_jumbo_pending |-> 0]

NoOut == [rx_max_pending |-> 0, tx_max_pending |-> 0,
          rx_pending |-> 0, tx_pending |-> 0]

Device(ent, cap, oc, ls) ==
  [rxq_entries       |-> ent[1],
   txq_entries       |-> ent[2],
   guaranteed_bitmap |-> cap[1],
   supported_bitmap  |-> cap[2],
   open_count        |-> oc,
   disabled          |-> ls[1],
   running           |-> ls[2]]

(* open_count exists only in multi-client builds *)
Init ==
  /\ multi_client \in BOOLEAN
  /\ \E ent \in InitEntries, cap \in Capabilities, ls \in LinkStates,
        oc \in 0..MaxOpenCount :
       /\ (~multi_client => oc = 0)
       /\ efx = Device(ent, cap, oc, ls)
  /\ ret = [op |-> "none", ring |-> NoRing, pre |-> efx, rc |-> 0,
            exit |-> "none", log |-> <<>>, out |-> NoOut]

Ring(rx, tx, mj) ==
  [rx_pending |-> rx, tx_pending |-> tx,
   rx_mini_pending |-> mj[1], rx_jumbo_pending |-> mj[2]]

(* the requests ethtool may pass to the setter *)
Requests ==
  {Ring(rx, tx, <<0, 0>>) : rx \in RequestSizes, tx \in RequestSizes}
    \cup {Ring(rx, tx, mj) : rx \in LegacySizes, tx \in LegacySizes,
                            mj \in MiniJumbo}

(* dev_open() returns a status only when the call reaches it *)
OpenCodesFor(e, mc, ring) ==
  IF is_up(e) /\ Validate(e, mc, ring, is_up(e)) = "apply"
    THEN OpenCodes ELSE {0}

GetRingparam ==
  /\ ret' = [op |-> "get", ring |-> NoRing, pre |-> efx, rc |-> 0,
             exit |-> "get", log |-> <<>>, out |-> get_ringparam(efx)]
  /\ UNCHANGED <<efx, multi_client>>

SetRingparam ==
  \E ring \in Requests :
   \E open_rc \in OpenCodesFor(efx, multi_client, ring) :
    LET r    == set_ringparam(efx, multi_client, ring, open_rc)
    IN  /\ efx' = r.efx
        /\ ret' = [op |-> "set", ring |-> ring, pre |-> efx, rc |-> r.rc,
                   exit |-> r.exit, log |-> r.log, out |-> NoOut]
        /\ UNCHANGED multi_client

Next == GetRingparam \/ SetRingparam

Spec == Init /\ [][Next]_vars

(* ---------------------------------------------------------------------- *)
(* Vocabulary of the properties, stated without the code's bit tricks      *)
(* ---------------------------------------------------------------------- *)
Pow2Set == {2 ^ k : k \in 0..17}

IsPow2(n) == n \in Pow2Set

BitsOf(b) == {p \in Pow2Set : (b \div p) % 2 = 1}

MaxOf(S) == CHOOSE x \in S : \A y \in S : y <= x

LargestSizeUpToCeiling(b) ==
  LET S == {p \in BitsOf(b) : p <= 16384}
  IN  IF S = {} THEN 0 ELSE MaxOf(S)

IsSet == ret.op = "set"

NoMiniJumbo == ret.ring.rx_mini_pending = 0 /\ ret.ring.rx_jumbo_pending = 0

BothPow2 == IsPow2(ret.ring.rx_pending) /\ IsPow2(ret.ring.tx_pending)

SameAsCurrent ==
  /\ ret.ring.rx_pending = ret.pre.rxq_entries
  /\ ret.ring.tx_pending = ret.pre.txq_entries

EntriesUnchanged ==
  /\ efx.rxq_entries = ret.pre.rxq_entries
  /\ efx.txq_entries = ret.pre.txq_entries

EntriesAsRequested ==
  /\ efx.rxq_entries = ret.ring.rx_pending
  /\ efx.txq_entries = ret.ring.tx_pending

Absent(n) == n # 0 /\ BitsOf(n) \cap BitsOf(ret.pre.guaranteed_bitmap) = {}

WasUp == ~ret.pre.disabled /\ ret.pre.running

PassesEarlierChecks ==
  /\ NoMiniJumbo
  /\ BothPow2
  /\ ~SameAsCurrent
  /\ ret.pre.supported_bitmap # 0
  /\ ~Absent(ret.ring.rx_pending)
  /\ ~Absent(ret.ring.tx_pending)

OpensOfInterface == IF WasUp THEN 1 ELSE 0

PassesAllChecks ==
  /\ PassesEarlierChecks
  /\ (multi_client => ret.pre.open_count <= OpensOfInterface)

StartInvoked == \E i \in 1..Len(ret.log) : ret.log[i].call = "dev_open"

ValidationCodes == {0 - EINVAL, 0 - EOPNOTSUPP, 0 - ERANGE, 0 - EBUSY}

(* ---------------------------------------------------------------------- *)
(* C1                                                                      *)
(* ---------------------------------------------------------------------- *)
ConfigSatisfies(e) ==
  /\ IsPow2(e.rxq_entries) /\ IsPow2(e.txq_entries)
  /\ e.rxq_entries \in BitsOf(e.guaranteed_bitmap)
  /\ e.txq_entries \in BitsOf(e.guaranteed_bitmap)
  /\ e.rxq_entries <= get_ringparam(e).rx_max_pending
  /\ e.txq_entries <= get_ringparam(e).tx_max_pending

InitValid == Init /\ ConfigSatisfies(efx)

SpecValid == InitValid /\ [][Next]_vars

(* C1: starting from a configuration that satisfies it, after any sequence *)
(* of queries and updates rx_entries and tx_entries are powers of two,     *)
(* have their bit set in the guaranteed bitmap and do not exceed the       *)
(* maximum the query reports.                                              *)
C1_Invariant == ConfigSatisfies(efx)

(* ---------------------------------------------------------------------- *)
(* C2                                                                      *)
(* ---------------------------------------------------------------------- *)
(* C2: an update in which rx_pending or tx_pending is not a power of two   *)
(* returns -EINVAL and leaves the stored sizes unchanged, whatever the     *)
(* device's flags, bitmaps, open count and link state are.                 *)
C2_NotPow2Rejected ==
  (IsSet /\ ~BothPow2) => (ret.rc = 0 - EINVAL /\ EntriesUnchanged)

C2_Witness ==
  /\ IsSet /\ NoMiniJumbo
  /\ ret.ring.rx_pending = 768 /\ ret.ring.tx_pending = 256
  /\ ret.pre.supported_bitmap # 0 /\ WasUp
  /\ ret.rc = 0 - EINVAL

(* ---------------------------------------------------------------------- *)
(* C3                                                                      *)
(* ---------------------------------------------------------------------- *)
(* C3 as stated: every update whose sizes equal the stored ones returns 0, *)
(* changes nothing and performs no stop/start.                             *)
C3_Original ==
  (IsSet /\ SameAsCurrent) => (ret.rc = 0 /\ efx = ret.pre /\ ret.log = <<>>)

NoOpStep ==
  (IsSet /\ ret.rc = 0 /\ ret'.op = "set" /\ ret'.ring = ret.ring)
    => (ret'.rc = 0 /\ ret'.log = <<>> /\ efx' = efx)

(* C3 amended: an update without mini/jumbo sizes whose sizes equal the    *)
(* stored ones returns 0, changes nothing and performs no stop/start, even *)
(* when the interface is up, ring-size changes are unsupported or other    *)
(* clients have the device open; and repeating an update that has just     *)
(* returned 0 returns 0 again without a restart.                           *)
C3_NoOp ==
  /\ []((IsSet /\ NoMiniJumbo /\ SameAsCurrent)
          => (ret.rc = 0 /\ efx = ret.pre /\ ret.log = <<>>))
  /\ [][NoOpStep]_vars

C3_Witness ==
  /\ IsSet /\ NoMiniJumbo /\ SameAsCurrent
  /\ WasUp /\ ret.pre.supported_bitmap = 0 /\ ret.pre.open_count > 1
  /\ ret.pre.rxq_entries # ret.pre.txq_entries
  /\ ret.rc = 0 /\ ret.log = <<>>

(* ---------------------------------------------------------------------- *)
(* C4                                                                      *)
(* ---------------------------------------------------------------------- *)
(* C4 as stated: with supported_bitmap zero every update other than the    *)
(* unchanged no-op returns -EOPNOTSUPP.                                    *)
C4_Original ==
  (IsSet /\ ret.pre.supported_bitmap = 0 /\ ~SameAsCurrent)
    => ret.rc = 0 - EOPNOTSUPP

(* C4 amended: with supported_bitmap zero every update without mini/jumbo  *)
(* sizes whose sizes are both powers of two and differ from the stored     *)
(* ones returns -EOPNOTSUPP.                                               *)
C4_NotSupported ==
  (IsSet /\ ret.pre.supported_bitmap = 0 /\ NoMiniJumbo /\ BothPow2
     /\ ~SameAsCurrent)
    => ret.rc = 0 - EOPNOTSUPP

C4_Witness ==
  /\ IsSet /\ ret.pre.supported_bitmap = 0 /\ ret.pre.guaranteed_bitmap # 0
  /\ NoMiniJumbo /\ BothPow2 /\ ~SameAsCurrent
  /\ ~Absent(ret.ring.rx_pending) /\ ~Absent(ret.ring.tx_pending)
  /\ ret.rc = 0 - EOPNOTSUPP

(* ---------------------------------------------------------------------- *)
(* C5                                                                      *)
(* ---------------------------------------------------------------------- *)
(* C5 as stated: every update in which a nonzero rx_pending or tx_pending  *)
(* has its bit absent from the guaranteed bitmap returns -ERANGE.          *)
C5_Original ==
  (IsSet /\ (Absent(ret.ring.rx_pending) \/ Absent(ret.ring.tx_pending)))
    => ret.rc = 0 - ERANGE

(* C5 amended: an update without mini/jumbo sizes, with both sizes powers  *)
(* of two and not both equal to the stored ones, on a device whose         *)
(* supported bitmap is nonzero, returns -ERANGE when rx_pending or         *)
(* tx_pending has its bit absent from the guaranteed bitmap.               *)
C5_OutOfRange ==
  (IsSet /\ NoMiniJumbo /\ BothPow2 /\ ~SameAsCurrent
     /\ ret.pre.supported_bitmap # 0
     /\ (Absent(ret.ring.rx_pending) \/ Absent(ret.ring.tx_pending)))
    => ret.rc = 0 - ERANGE

C5_Witness ==
  /\ IsSet /\ NoMiniJumbo
  /\ ret.pre.guaranteed_bitmap = 5376
  /\ ret.ring.rx_pending = 512 /\ ret.ring.tx_pending = 256
  /\ ret.rc = 0 - ERANGE

(* ---------------------------------------------------------------------- *)
(* C6                                                                      *)
(* ---------------------------------------------------------------------- *)
(* C6: the query reports rx_max_pending and tx_max_pending equal to the    *)
(* largest power of two <= 16384 whose bit is set in the guaranteed        *)
(* bitmap, 0 when there is none, reports the stored sizes as rx_pending    *)
(* and tx_pending, and changes no device state.                            *)
C6_QueryMax ==
  ret.op = "get" =>
    /\ ret.out.rx_max_pending = LargestSizeUpToCeiling(ret.pre.guaranteed_bitmap)
    /\ ret.out.tx_max_pending = LargestSizeUpToCeiling(ret.pre.guaranteed_bitmap)
    /\ ret.out.rx_pending = efx.rxq_entries
    /\ ret.out.tx_pending = efx.txq_entries
    /\ efx = ret.pre

C6_Witness ==
  /\ ret.op = "get"
  /\ ret.pre.guaranteed_bitmap = 33024
  /\ ret.out.rx_max_pending = 256
  /\ ret.out.rx_pending = 1024 /\ ret.out.tx_pending = 256

(* ---------------------------------------------------------------------- *)
(* C7                                                                      *)
(* ---------------------------------------------------------------------- *)
(* C7 as stated: whenever the update returns -EINVAL, -EOPNOTSUPP, -ERANGE *)
(* or -EBUSY the stored sizes are what they were before the call and       *)
(* neither the stop nor the start function has been invoked.               *)
C7_Original ==
  (IsSet /\ ret.rc \in ValidationCodes) => (EntriesUnchanged /\ ret.log = <<>>)

(* C7 amended: whenever the update returns one of these codes from one of  *)
(* its validation checks, that is, not as the status of the interface      *)
(* start, the device is what it was before the call and neither the stop   *)
(* nor the start function has been invoked.                                *)
C7_FailFast ==
  (IsSet /\ ret.rc \in ValidationCodes /\ ~StartInvoked)
    => (efx = ret.pre /\ ret.log = <<>>)

C7_Witness ==
  /\ IsSet /\ PassesEarlierChecks /\ WasUp
  /\ ret.rc = 0 - EBUSY /\ ~StartInvoked
  /\ efx = ret.pre

(* ---------------------------------------------------------------------- *)
(* C8                                                                      *)
(* ---------------------------------------------------------------------- *)
(* C8: an update that passes all checks and differs from the stored sizes  *)
(* stores the requested sizes before any stop; if the interface was up at  *)
(* call time exactly one stop is followed by exactly one start, both with  *)
(* the new sizes in place, and the update returns the start's status,      *)
(* keeping the new sizes when the start fails; otherwise there is no stop  *)
(* or start and the update returns 0.                                      *)
C8_ApplyAndRestart ==
  (IsSet /\ PassesAllChecks) =>
    /\ EntriesAsRequested
    /\ IF WasUp
         THEN /\ Len(ret.log) = 2
              /\ ret.log[1].call = "dev_close"
              /\ ret.log[1].rxq_entries = ret.ring.rx_pending
              /\ ret.log[1].txq_entries = ret.ring.tx_pending
              /\ ret.log[2].call = "dev_open"
              /\ ret.log[2].rxq_entries = ret.ring.rx_pending
              /\ ret.log[2].txq_entries = ret.ring.tx_pending
              /\ ret.rc = ret.log[2].rc
         ELSE ret.log = <<>> /\ ret.rc = 0

C8_Witness ==
  /\ IsSet /\ PassesAllChecks /\ WasUp
  /\ ret.pre.guaranteed_bitmap = 5376
  /\ ret.pre.rxq_entries = 256 /\ ret.pre.txq_entries = 256
  /\ ret.ring.rx_pending = 1024 /\ ret.ring.tx_pending = 256
  /\ ret.rc = 0 /\ Len(ret.log) = 2
  /\ efx.rxq_entries = 1024 /\ efx.txq_entries = 256

C10_ZeroRejected ==
  /\ (IsSet /\ (ret.ring.rx_pending = 0 \/ ret.ring.tx_pending = 0))
       => /\ ret.rc = 0 - EINVAL
          /\ ret.exit \in {"mini_jumbo", "not_pow2"}
          /\ efx = ret.pre /\ ret.log = <<>>
  /\ efx.rxq_entries # 0 /\ efx.txq_entries # 0
  /\ (IsSet /\ ret.rc = 0 - ERANGE)
       => (ret.ring.rx_pending # 0 /\ ret.ring.tx_pending # 0)

C10_Witness ==
  /\ IsSet /\ NoMiniJumbo
  /\ ret.ring.rx_pending = 0
  /\ ret.ring.tx_pending = ret.pre.txq_entries
  /\ ret.ring.tx_pending \in BitsOf(ret.pre.guaranteed_bitmap)
  /\ ret.pre.supported_bitmap # 0
  /\ ret.rc = 0 - EINVAL /\ efx = ret.pre

====
